---- MODULE Spec2Model ----
(***************************************************************************)
(* Document-assembly engine of pdf-wizard-instant                          *)
(* (src/src/utils/conversionUtils.ts): the five conversion strategies,     *)
(* the placeholder arm and the dispatcher convertByFeature, together with  *)
(* the layout computation that convertImagesToPDF performs inline.         *)
(*                                                                         *)
(* One conversion call is a single asynchronous function: it runs          *)
(* atomically from one await to the next.  Every action below is one such  *)
(* run: the call itself up to its first await, or the continuation that    *)
(* runs when the awaited promise settles (fulfilled or rejected).          *)
(***************************************************************************)
EXTENDS Integers, Sequences, FiniteSets, TLC

(***************************************************************************)
(* Bounds of the model.                                                    *)
(***************************************************************************)
\* longest batch handed to one call
MaxItems == 4
\* largest pixel width / height of a source raster in the layout check
MaxDim == 40
\* most pages of a source PDF
MaxPdfPages == 2

(***************************************************************************)
(* JavaScript numbers.  The code computes with IEEE 754 doubles, and so    *)
(* does the model: a finite number is sign * m * 2^e with a mantissa m of  *)
(* exactly 53 bits (or no bits, for the two zeros), and every operation    *)
(* rounds its exact result to the nearest such number, ties to the even    *)
(* mantissa.  The mantissa is wider than an integer of TLC, so it is kept  *)
(* as a sequence of limbs of LimbBits bits, least significant first, with  *)
(* no zero limb at the top; <<>> is 0.  The exponent is not bounded: the   *)
(* program computes no value near the overflow or the subnormal range.     *)
(***************************************************************************)
LimbBits == 14

Base == 16384

MantissaBits == 53

Abs(a) == IF a < 0 THEN -a ELSE a

Sign(a) == IF a > 0 THEN 1 ELSE IF a < 0 THEN -1 ELSE 0

RECURSIVE TwoTo(_)
TwoTo(k) == IF k = 0 THEN 1 ELSE 2 * TwoTo(k - 1)

\* the number of bits of a limb
RECURSIVE SmallBits(_)
SmallBits(c) == IF c = 0 THEN 0 ELSE 1 + SmallBits(c \div 2)

Limb(x, k) == IF k <= Len(x) THEN x[k] ELSE 0

RECURSIVE Trim(_)
Trim(x) == IF x # <<>> /\ x[Len(x)] = 0 THEN Trim(SubSeq(x, 1, Len(x) - 1)) ELSE x

\* a natural number of TLC as limbs
FromNat(k) == Trim(<<k % Base, (k \div Base) % Base, k \div (Base * Base)>>)

BitLen(x) == IF x = <<>> THEN 0 ELSE LimbBits * (Len(x) - 1) + SmallBits(x[Len(x)])

RECURSIVE AddFrom(_, _, _, _)
AddFrom(x, y, k, carry) ==
    IF k > Len(x) /\ k > Len(y)
    THEN IF carry = 0 THEN <<>> ELSE <<carry>>
    ELSE LET t == Limb(x, k) + Limb(y, k) + carry
         IN  <<t % Base>> \o AddFrom(x, y, k + 1, t \div Base)

BigAdd(x, y) == AddFrom(x, y, 1, 0)

RECURSIVE SubFrom(_, _, _, _)
SubFrom(x, y, k, borrow) ==
    IF k > Len(x) THEN <<>>
    ELSE LET t == x[k] - Limb(y, k) - borrow
         IN  <<(t + Base) % Base>> \o SubFrom(x, y, k + 1, IF t < 0 THEN 1 ELSE 0)

\* x - y, for x >= y
BigSub(x, y) == Trim(SubFrom(x, y, 1, 0))

RECURSIVE CmpFrom(_, _, _)
CmpFrom(x, y, k) ==
    IF k = 0 THEN 0
    ELSE IF x[k] # y[k] THEN (IF x[k] > y[k] THEN 1 ELSE -1)
    ELSE CmpFrom(x, y, k - 1)

\* -1, 0 or 1 as x is below, equal to or above y
BigCmp(x, y) ==
    IF Len(x) # Len(y) THEN (IF Len(x) > Len(y) THEN 1 ELSE -1)
    ELSE CmpFrom(x, y, Len(x))

RECURSIVE MulSmallFrom(_, _, _, _)
MulSmallFrom(x, c, k, carry) ==
    IF k > Len(x) THEN (IF carry = 0 THEN <<>> ELSE <<carry>>)
    ELSE LET t == x[k] * c + carry
         IN  <<t % Base>> \o MulSmallFrom(x, c, k + 1, t \div Base)

\* x * c, for a limb c
MulSmall(x, c) == IF c = 0 THEN <<>> ELSE MulSmallFrom(x, c, 1, 0)

\* x * Base^n
ShiftLimbs(x, n) == IF x = <<>> THEN <<>> ELSE [k \in 1..n |-> 0] \o x

RECURSIVE BigMulFrom(_, _, _)
BigMulFrom(x, y, k) ==
    IF k > Len(y) THEN <<>>
    ELSE BigAdd(ShiftLimbs(MulSmall(x, y[k]), k - 1), BigMulFrom(x, y, k + 1))

BigMul(x, y) == BigMulFrom(x, y, 1)

\* x * 2^k
Shl(x, k) == ShiftLimbs(MulSmall(x, TwoTo(k % LimbBits)), k \div LimbBits)

RECURSIVE DivSmallFrom(_, _, _, _)
DivSmallFrom(x, c, k, rem) ==
    IF k = 0 THEN <<>>
    ELSE LET t == rem * Base + x[k]
         IN  DivSmallFrom(x, c, k - 1, t % c) \o <<t \div c>>

\* floor(x / 2^k)
Shr(x, k) ==
    LET rest == SubSeq(x, (k \div LimbBits) + 1, Len(x))
    IN  Trim(DivSmallFrom(rest, TwoTo(k % LimbBits), Len(rest), 0))

\* the largest digit c <= qhat with d * c <= r
RECURSIVE FitDigit(_, _, _)
FitDigit(d, r, qhat) ==
    IF BigCmp(MulSmall(d, qhat), r) > 0 THEN FitDigit(d, r, qhat - 1) ELSE qhat

\* n more digits, in base Base, of the quotient of a long division by d, a divisor of
\* four limbs with its top bit set: r < d is the remainder so far, and the next digit
\* is at most the quotient of the two top limbs of r * Base by the top limb of d
RECURSIVE DivDigits(_, _, _, _)
DivDigits(r, d, q, n) ==
    LET \* the digit c leaves the remainder r2 - d * c
        Step(r2, c) ==
            DivDigits(BigSub(r2, MulSmall(d, c)), d,
                      IF q = <<>> /\ c = 0 THEN <<>> ELSE <<c>> \o q, n - 1)
        Estimate(r2) == (Limb(r2, 5) * Base + Limb(r2, 4)) \div d[4]
        Digit(r2, est) == Step(r2, FitDigit(d, r2, IF est > Base - 1 THEN Base - 1 ELSE est))
        Shifted(r2) == Digit(r2, Estimate(r2))
    IN  IF n = 0 THEN [q |-> q, r |-> r] ELSE Shifted(ShiftLimbs(r, 1))

Fin(s, m, e) == [k |-> "fin", s |-> s, m |-> m, e |-> e]

\* 0 and -0
Zero(s) == Fin(s, <<>>, 0)

NaN == [k |-> "nan", s |-> 1, m |-> <<>>, e |-> 0]

Inf(s) == [k |-> "inf", s |-> s, m |-> <<>>, e |-> 0]

Infinity == Inf(1)

IsNaN(a) == a.k = "nan"

IsFinite(a) == a.k = "fin"

IsZero(a) == a.k = "fin" /\ a.m = <<>>

\* the double nearest to s * q * 2^e, or to a value just above it in magnitude when
\* sticky (an inexact quotient); ties go to the even mantissa
RoundToDouble(s, q, sticky, e) ==
    LET \* m: the rounded mantissa, of 53 bits or, after a carry, of 54
        Carried(m, k) ==
            IF BitLen(m) > MantissaBits THEN Fin(s, Shr(m, 1), e + k + 1)
            ELSE Fin(s, m, e + k)
        \* c: the k bits below top against half a unit of top
        Up(top, c, k) ==
            Carried(IF c > 0 \/ (c = 0 /\ (sticky \/ top[1] % 2 = 1))
                    THEN BigAdd(top, <<1>>) ELSE top, k)
        \* top: the leading 53 bits of q
        Nearest(top, k) ==
            Up(top, BigCmp(BigSub(q, Shl(top, k)), Shl(<<1>>, k - 1)), k)
        Sized(len) ==
            IF len <= MantissaBits
            THEN Fin(s, Shl(q, MantissaBits - len), e - (MantissaBits - len))
            ELSE Nearest(Shr(q, len - MantissaBits), len - MantissaBits)
    IN  IF q = <<>> THEN Zero(s) ELSE Sized(BitLen(q))

\* the number value of an integer
Num(k) == IF k = 0 THEN Zero(1) ELSE RoundToDouble(Sign(k), FromNat(Abs(k)), FALSE, 0)

\* -a
Neg(a) == IF IsNaN(a) THEN NaN ELSE [a EXCEPT !.s = -a.s]

\* -1, 0 or 1 as |a| is below, equal to or above |b|, for finite a and b
CmpMagnitude(a, b) ==
    IF a.m = <<>> \/ b.m = <<>>
    THEN (IF a.m = b.m THEN 0 ELSE IF a.m = <<>> THEN -1 ELSE 1)
    ELSE IF a.e # b.e THEN (IF a.e > b.e THEN 1 ELSE -1)
    ELSE BigCmp(a.m, b.m)

\* -1, 0 or 1 as a is below, equal to or above b, for a and b other than NaN
Cmp(a, b) ==
    IF a.k = "inf" \/ b.k = "inf"
    THEN LET va == IF a.k = "inf" THEN a.s ELSE 0
             vb == IF b.k = "inf" THEN b.s ELSE 0
         IN  Sign(va - vb)
    ELSE IF IsZero(a) /\ IsZero(b) THEN 0
    ELSE IF IsZero(a) THEN -b.s
    ELSE IF IsZero(b) THEN a.s
    ELSE IF a.s # b.s THEN a.s
    ELSE a.s * CmpMagnitude(a, b)

\* a + b for finite non-zero a and b with a.e >= b.e
AddAligned(a, b) ==
    LET gap == a.e - b.e
        \* beyond the rounding position b only tells on which side of a the sum lies
        far == gap > MantissaBits + 2
        \* x and y: the two magnitudes at the exponent e, c: x against y
        Signed(x, y, c, e) ==
            IF a.s # b.s /\ c = 0 THEN Zero(1)
            ELSE RoundToDouble(IF a.s = b.s \/ c > 0 THEN a.s ELSE b.s,
                               IF a.s = b.s THEN (IF far THEN x ELSE BigAdd(x, y))
                               ELSE IF c > 0 THEN BigSub(x, y)
                               ELSE BigSub(y, x),
                               far, e)
        Aligned(x, y, e) == Signed(x, y, BigCmp(x, y), e)
    IN  Aligned(Shl(a.m, IF far THEN 2 ELSE gap), IF far THEN <<1>> ELSE b.m,
                IF far THEN a.e - 2 ELSE b.e)

\* a + b
Add(a, b) ==
    IF IsNaN(a) \/ IsNaN(b) THEN NaN
    ELSE IF a.k = "inf" /\ b.k = "inf" THEN (IF a.s = b.s THEN a ELSE NaN)
    ELSE IF a.k = "inf" THEN a
    ELSE IF b.k = "inf" THEN b
    ELSE IF IsZero(a) /\ IsZero(b) THEN Zero(IF a.s = -1 /\ b.s = -1 THEN -1 ELSE 1)
    ELSE IF IsZero(a) THEN b
    ELSE IF IsZero(b) THEN a
    ELSE AddAligned(IF a.e >= b.e THEN a ELSE b, IF a.e >= b.e THEN b ELSE a)

\* a - b
Sub(a, b) == Add(a, Neg(b))

\* a * b
Mul(a, b) ==
    IF IsNaN(a) \/ IsNaN(b) THEN NaN
    ELSE IF a.k = "inf" \/ b.k = "inf"
    THEN (IF IsZero(a) \/ IsZero(b) THEN NaN ELSE Inf(a.s * b.s))
    ELSE RoundToDouble(a.s * b.s, BigMul(a.m, b.m), FALSE, a.e + b.e)

\* a / b
Div(a, b) ==
    IF IsNaN(a) \/ IsNaN(b) THEN NaN
    ELSE IF a.k = "inf" THEN (IF b.k = "inf" THEN NaN ELSE Inf(a.s * b.s))
    ELSE IF b.k = "inf" THEN Zero(a.s * b.s)
    ELSE IF IsZero(b) THEN (IF IsZero(a) THEN NaN ELSE Inf(a.s * b.s))
    ELSE IF IsZero(a) THEN Zero(a.s * b.s)
    ELSE LET Quotient(qr) ==
                 RoundToDouble(a.s * b.s, qr.q, qr.r # <<>>, a.e - b.e - 4 * LimbBits)
             \* first: the quotient of the mantissas is at least 1
             Long(x, d, first) ==
                 Quotient(DivDigits(IF first THEN BigSub(x, d) ELSE x, d,
                                    IF first THEN <<1>> ELSE <<>>, 4))
             Scaled(x, d) == Long(x, d, BigCmp(x, d) >= 0)
         IN  \* both mantissas times 8, which makes them four full limbs
             Scaled(Shl(a.m, 4 * LimbBits - MantissaBits),
                    Shl(b.m, 4 * LimbBits - MantissaBits))

\* a > b : false as soon as one side is NaN
Gt(a, b) == ~IsNaN(a) /\ ~IsNaN(b) /\ Cmp(a, b) > 0

\* a <= b
Leq(a, b) == ~IsNaN(a) /\ ~IsNaN(b) /\ Cmp(a, b) <= 0

\* a === b : the two zeros are equal, NaN equals nothing
Eq(a, b) == ~IsNaN(a) /\ ~IsNaN(b) /\ Cmp(a, b) = 0

(***************************************************************************)
(* Layout computation of convertImagesToPDF (lines 42-56).                 *)
(***************************************************************************)
\* const margin = 10
ImageMargin == 10

LayoutWrongBranch(width, height, pageWidth, pageHeight, margin) ==
    LET imgAspectRatio == Div(Num(width), Num(height))
        pageAspectRatio == Div(Sub(pageWidth, Num(2 * margin)), Sub(pageHeight, Num(2 * margin)))
        wide == ~Gt(imgAspectRatio, pageAspectRatio)
        finalWidth == IF wide THEN Sub(pageWidth, Num(2 * margin))
                      ELSE Mul(Sub(pageHeight, Num(2 * margin)), imgAspectRatio)
        finalHeight == IF wide THEN Div(Sub(pageWidth, Num(2 * margin)), imgAspectRatio)
                       ELSE Sub(pageHeight, Num(2 * margin))
    IN  [finalWidth |-> finalWidth,
         finalHeight |-> finalHeight,
         x |-> Div(Sub(pageWidth, finalWidth), Num(2)),
         y |-> Div(Sub(pageHeight, finalHeight), Num(2))]

LayoutStretch(width, height, pageWidth, pageHeight, margin) ==
    [finalWidth |-> Sub(pageWidth, Num(2 * margin)),
     finalHeight |-> Sub(pageHeight, Num(2 * margin)),
     x |-> Num(margin),
     y |-> Num(margin)]

Layout(width, height, pageWidth, pageHeight, margin) ==
    LET \* const x = (pageWidth - finalWidth) / 2, y likewise (lines 55-56)
        Centred(finalWidth, finalHeight) ==
            [finalWidth |-> finalWidth,
             finalHeight |-> finalHeight,
             x |-> Div(Sub(pageWidth, finalWidth), Num(2)),
             y |-> Div(Sub(pageHeight, finalHeight), Num(2))]
        \* if (imgAspectRatio > pageAspectRatio) { ... } else { ... } (lines 47-53)
        Fitted(imgAspectRatio, wide) ==
            Centred(IF wide THEN Sub(pageWidth, Num(2 * margin))
                    ELSE Mul(Sub(pageHeight, Num(2 * margin)), imgAspectRatio),
                    IF wide THEN Div(Sub(pageWidth, Num(2 * margin)), imgAspectRatio)
                    ELSE Sub(pageHeight, Num(2 * margin)))
        Compared(imgAspectRatio, pageAspectRatio) ==
            Fitted(imgAspectRatio, Gt(imgAspectRatio, pageAspectRatio))
    IN  Compared(Div(Num(width), Num(height)),
                 Div(Sub(pageWidth, Num(2 * margin)), Sub(pageHeight, Num(2 * margin))))

(***************************************************************************)
(* Input files.  A file is known to the engine only through what its       *)
(* readers return: the raster an <img> decodes from it, the text           *)
(* file.text() yields, the document PDFDocument.load parses.  kind "bad"   *)
(* is a file none of the readers can read (corrupt or unreadable bytes).   *)
(***************************************************************************)
\* new jsPDF(): the unit is mm, and a length in points is divided by 72 / 25.4
ScaleFactor == Div(Num(72), Div(Num(254), Num(10)))

\* pdf.internal.pageSize.getWidth() / getHeight() of new jsPDF(): A4 portrait,
\* 595.28 pt x 841.89 pt, in mm: 210.0015555555555 and 297.0000833333333
PageWidth == Div(Div(Num(59528), Num(100)), ScaleFactor)

PageHeight == Div(Div(Num(84189), Num(100)), ScaleFactor)

\* const margin = 20 ; const lineHeight = 6 (text and Word strategies)
TextMargin == 20

LineHeight == 6

\* text.substring(0, 5000) in convertWordToPDF
WordTextLimit == 5000

\* characters pdf.splitTextToSize puts on one line of width maxLineWidth
CharsPerLine == 100

ImageFile(w, h) == [kind |-> "image", w |-> w, h |-> h, len |-> 0, pages |-> 0]

TextFile(len) == [kind |-> "text", w |-> 0, h |-> 0, len |-> len, pages |-> 0]

DocxFile(len) == [kind |-> "docx", w |-> 0, h |-> 0, len |-> len, pages |-> 0]

PdfFile(n) == [kind |-> "pdf", w |-> 0, h |-> 0, len |-> 0, pages |-> n]

BadFile == [kind |-> "bad", w |-> 0, h |-> 0, len |-> 0, pages |-> 0]

ImplementedIds == {"images-to-pdf", "text-to-pdf", "merge-pdfs", "split-pdf", "word-to-pdf"}

PlaceholderIds == {"powerpoint-to-pdf", "excel-to-pdf", "pdf-to-images", "no-such-feature"}

FeatureIds == ImplementedIds \cup PlaceholderIds

\* the files a batch for featureId is drawn from: one file per outcome its reader has
BatchFiles(id) ==
    CASE id = "images-to-pdf" -> {ImageFile(2, 1), ImageFile(0, 0), BadFile}
      [] id = "text-to-pdf" -> {TextFile(0), TextFile(4500), BadFile}
      [] id \in {"merge-pdfs", "split-pdf"} -> {PdfFile(k) : k \in 0..MaxPdfPages} \cup {BadFile}
      [] id = "word-to-pdf" -> {DocxFile(5200), TextFile(250), BadFile}
      [] OTHER -> {TextFile(0), BadFile}

SeqsUpTo(S, n) == UNION {[1..k -> S] : k \in 0..n}

Batches(id) == SeqsUpTo(BatchFiles(id), MaxItems)

\* img.onload / img.onerror (lines 36-40)
LoadImage(f) ==
    IF f.kind = "image" THEN [ok |-> TRUE, width |-> f.w, height |-> f.h]
    ELSE [ok |-> FALSE, width |-> 0, height |-> 0]

\* file.file.text() (line 108): the length of the text, or a rejection
ReadText(f) ==
    IF f.kind = "bad" THEN [ok |-> FALSE, len |-> 0] ELSE [ok |-> TRUE, len |-> f.len]

\* file.file.arrayBuffer() and PDFDocument.load (lines 165-166, 192-193)
LoadPdf(f) ==
    IF f.kind = "pdf" THEN [ok |-> TRUE, pageCount |-> f.pages]
    ELSE [ok |-> FALSE, pageCount |-> 0]

\* the extraction of convertWordToPDF (lines 248-260)
ExtractWordText(f) ==
    IF f.kind = "bad" THEN [ok |-> FALSE, len |-> 0] ELSE [ok |-> TRUE, len |-> f.len]

(***************************************************************************)
(* Output documents: a sequence of pages, a page a sequence of drawing     *)
(* commands.  jsPDF draws on its current page, the last one added.         *)
(***************************************************************************)
BlankPage == <<>>

\* new jsPDF(): a document with one blank page
NewJsPDF == <<BlankPage>>

\* PDFDocument.create(): a document without pages
NewPDFDocument == <<>>

AddPageInFront(d, page) == <<page>> \o d

\* pdf.addPage() / mergedPdf.addPage(page): the page becomes the last page
AddPage(d, page) == Append(d, page)

\* any jsPDF drawing call: appends a command to the current page
Draw(d, cmd) == [d EXCEPT ![Len(d)] = Append(@, cmd)]

ProgressValueNext(k, n) == Mul(Div(Num(k + 1), Num(n)), Num(90))

ProgressValueDescending(k, n) == Mul(Div(Num(n - k), Num(n)), Num(90))

\* (i / files.length) * 90
ProgressValue(k, n) == Mul(Div(Num(k), Num(n)), Num(90))

\* the values a loop over n units reports before its units, computed once
ProgressValues == [n \in 1..MaxItems |-> [k \in 0..(n - 1) |-> ProgressValue(k, n)]]

\* the value reported after the last unit
ProgressDone == Num(100)

\* the placement of every raster of the model on the page of new jsPDF(), computed once
Placements ==
    [w \in 0..2 |->
        [h \in 0..2 |-> Layout(w, h, PageWidth, PageHeight, ImageMargin)]]

\* canvas.toDataURL of a canvas of the raster's size: no image data for an empty canvas
ToDataURL(width, height) == IF width > 0 /\ height > 0 THEN "jpeg" ELSE "empty"

OpenPageAlways(d, first) == AddPage(d, BlankPage)

\* if (isFirstPage) { isFirstPage = false } else { pdf.addPage() }
OpenPage(d, first) == IF first THEN d ELSE AddPage(d, BlankPage)

\* the try body of convertImagesToPDF after the await (lines 42-73), and its catch
ImageItem(d, first, idx, f) ==
    LET img == LoadImage(f)
        at == Placements[img.width][img.height]
        imgData == ToDataURL(img.width, img.height)
        opened == OpenPage(d, first)
    IN  IF ~img.ok THEN [doc |-> d, isFirstPage |-> first, ok |-> FALSE]
        ELSE IF imgData = "empty"
             THEN \* pdf.addImage throws on the empty data URL
                  [doc |-> opened, isFirstPage |-> FALSE, ok |-> FALSE]
             ELSE [doc |-> Draw(Draw(opened, [op |-> "image", item |-> idx, at |-> at]),
                                [op |-> "text", item |-> idx, what |-> "caption", k |-> 0,
                                 y |-> Sub(PageHeight, Num(5))]),
                   isFirstPage |-> FALSE, ok |-> TRUE]

\* pdf.splitTextToSize: the number of lines; the empty text is one empty line
SplitTextToSize(len) ==
    IF len = 0 THEN 1 ELSE (len + CharsPerLine - 1) \div CharsPerLine

\* text.substring(0, limit)
Substring(len, limit) == IF len < limit THEN len ELSE limit

\* pageHeight - margin of the text strategies (lines 131, 283)
TextBottom == Sub(PageHeight, Num(TextMargin))

NextLineOverflowsLate(y) == Gt(Num(y), TextBottom)

\* if (y + lineHeight > pageHeight - margin) (lines 131, 283)
NextLineOverflows(y) == Gt(Num(y + LineHeight), TextBottom)

\* for (const line of lines) { ... } (lines 130-137, 282-289)
RECURSIVE DrawLines(_, _, _, _, _)
DrawLines(d, idx, k, nlines, y) ==
    IF k > nlines THEN d
    ELSE LET fits == ~NextLineOverflows(y)
             d1 == IF fits THEN d ELSE AddPage(d, BlankPage)
             y1 == IF fits THEN y ELSE TextMargin
             d2 == Draw(d1, [op |-> "text", item |-> idx, what |-> "line", k |-> k,
                             y |-> y1])
         IN  \* the test is always true: it makes TLC evaluate d2 and y before recursing
             IF Len(d2) > 0 /\ y1 + LineHeight > 0
             THEN DrawLines(d2, idx, k + 1, nlines, y1 + LineHeight)
             ELSE d2

\* the try body of convertTextToPDF / convertWordToPDF after the await
TextBody(d, first, idx, len) ==
    LET opened == OpenPage(d, first)
        titled == Draw(Draw(opened, [op |-> "text", item |-> idx, what |-> "title", k |-> 0,
                                     y |-> TextMargin + 10]),
                       [op |-> "line", item |-> idx, y |-> TextMargin + 15])
    IN  DrawLines(titled, idx, 1, SplitTextToSize(len), TextMargin + 25)

TextItemSkipsEmpty(d, first, idx, f) ==
    LET text == ReadText(f)
    IN  IF ~text.ok THEN [doc |-> d, isFirstPage |-> first, ok |-> FALSE]
        ELSE IF text.len = 0 THEN [doc |-> d, isFirstPage |-> first, ok |-> TRUE]
        ELSE [doc |-> TextBody(d, first, idx, text.len), isFirstPage |-> FALSE, ok |-> TRUE]

\* the try body of convertTextToPDF (lines 108-137), and its catch
TextItem(d, first, idx, f) ==
    LET text == ReadText(f)
    IN  IF ~text.ok THEN [doc |-> d, isFirstPage |-> first, ok |-> FALSE]
        ELSE [doc |-> TextBody(d, first, idx, text.len), isFirstPage |-> FALSE, ok |-> TRUE]

WordItem(d, first, idx, f) ==
    LET text == ExtractWordText(f)
    IN  IF ~text.ok THEN [doc |-> d, isFirstPage |-> first, ok |-> FALSE]
        ELSE [doc |-> TextBody(d, first, idx, Substring(text.len, WordTextLimit)),
              isFirstPage |-> FALSE, ok |-> TRUE]

RECURSIVE AddCopiedPagesReversed(_, _, _, _)
AddCopiedPagesReversed(d, idx, k, n) ==
    IF k > n THEN d
    ELSE AddCopiedPagesReversed(AddPage(d, <<[op |-> "copy", item |-> idx,
                                              page |-> n - k + 1]>>),
                                idx, k + 1, n)

\* copiedPages.forEach((page) => mergedPdf.addPage(page)) (lines 167-169)
RECURSIVE AddCopiedPages(_, _, _, _)
AddCopiedPages(d, idx, k, n) ==
    IF k > n THEN d
    ELSE AddCopiedPages(AddPage(d, <<[op |-> "copy", item |-> idx, page |-> k]>>),
                        idx, k + 1, n)

MergeItem(d, first, idx, f) ==
    LET pdf == LoadPdf(f)
    IN  IF ~pdf.ok THEN [doc |-> d, isFirstPage |-> first, ok |-> FALSE]
        ELSE [doc |-> AddCopiedPages(d, idx, 1, pdf.pageCount), isFirstPage |-> first,
              ok |-> TRUE]

LabelOffByOne(k, total) == [op |-> "label", index |-> k, total |-> total]

\* `Page ${i + 1} of ${pageCount}` : k is the 0-based loop index i
Label(k, total) == [op |-> "label", index |-> k + 1, total |-> total]

\* the body of splitPDF's loop after copyPages (lines 205-215); k is 0-based
SplitPage(d, k, total) ==
    Draw(AddPage(d, <<[op |-> "copy", item |-> 0, page |-> k + 1]>>), Label(k, total))

\* the default arm of convertByFeature (lines 343-348)
PlaceholderDoc ==
    Draw(Draw(Draw(NewJsPDF,
                   [op |-> "text", item |-> -1, what |-> "info", k |-> 1, y |-> 30]),
              [op |-> "text", item |-> -1, what |-> "info", k |-> 2, y |-> 50]),
         [op |-> "text", item |-> -1, what |-> "info", k |-> 3, y |-> 70])

SavePdfLibNoDefault(d) == d

\* mergedPdf.save() / resultPdf.save(): pdf-lib adds a page to a document without pages
SavePdfLib(d) == IF d = <<>> THEN <<BlankPage>> ELSE d

(***************************************************************************)
(* The dispatcher and the per-item error policy.                           *)
(***************************************************************************)
Strategies ==
    {"convertImagesToPDF", "convertTextToPDF", "mergePDFs", "splitPDF", "convertWordToPDF"}

\* the strategies that iterate the batch inside try/catch
LoopStrategies == Strategies \ {"splitPDF"}

\* the strategies built on jsPDF (synchronous pdf.output('blob'))
JsPdfStrategies == {"convertImagesToPDF", "convertTextToPDF", "convertWordToPDF"}

RouteFallsThrough(id) ==
    CASE id = "images-to-pdf" -> "convertImagesToPDF"
      [] id = "text-to-pdf" -> "convertTextToPDF"
      [] id = "merge-pdfs" -> "mergePDFs"
      [] id = "word-to-pdf" -> "convertWordToPDF"
      [] OTHER -> "splitPDF"

RouteSwapped(id) ==
    CASE id = "images-to-pdf" -> "convertImagesToPDF"
      [] id = "text-to-pdf" -> "convertWordToPDF"
      [] id = "merge-pdfs" -> "mergePDFs"
      [] id = "split-pdf" -> "splitPDF"
      [] id = "word-to-pdf" -> "convertTextToPDF"
      [] OTHER -> "placeholder"

\* switch (featureId) of convertByFeature
Route(id) ==
    CASE id = "images-to-pdf" -> "convertImagesToPDF"
      [] id = "text-to-pdf" -> "convertTextToPDF"
      [] id = "merge-pdfs" -> "mergePDFs"
      [] id = "split-pdf" -> "splitPDF"
      [] id = "word-to-pdf" -> "convertWordToPDF"
      [] OTHER -> "placeholder"

ItemFailureRejectsAlways(s) == TRUE

\* whether a reader's failure leaves the strategy uncaught: the four loops wrap the
\* item in try/catch, splitPDF reads its source outside any try
ItemFailureRejects(s) == s = "splitPDF"

\* if (files.length === 0) throw new Error('No PDF file provided') : splitPDF only
RejectsEmptyBatch(s) == s = "splitPDF"

\* what one settled item does to the document, per strategy
ItemResult(s, d, first, idx, f) ==
    CASE s = "convertImagesToPDF" -> ImageItem(d, first, idx, f)
      [] s = "convertTextToPDF" -> TextItem(d, first, idx, f)
      [] s = "convertWordToPDF" -> WordItem(d, first, idx, f)
      [] s = "mergePDFs" -> MergeItem(d, first, idx, f)

NoBlob == [type |-> "", pages |-> <<>>]

\* pdf.output('blob') / new Blob([pdfBytes], { type: 'application/pdf' })
Output(d) == [type |-> "application/pdf", pages |-> d]

(***************************************************************************)
(* State.                                                                  *)
(***************************************************************************)
VARIABLES
    pc,          \* "idle", "create", "await", "load", "copy", "save", "resolved", "rejected"
    featureId,   \* argument of the current convertByFeature call
    files,       \* argument of the current call: the batch
    strategy,    \* the arm of the switch the call took
    invoked,     \* the strategies the call has invoked, in order
    i,           \* loop index of the running strategy (0-based)
    isFirstPage, \* the flag of the jsPDF strategies
    doc,         \* the output document under construction
    pageCount,   \* splitPDF: pdf.getPageCount()
    progress,    \* the values passed to onProgress, in order
    events,      \* per-item trace: start / done / fail, in order
    blob,        \* the value the call resolved with
    layIn,       \* layout check: the inputs
    layOut,      \* layout check: the result
    layDone      \* layout check: computed

\* FileUploader (the component mounted for the selected feature)
VARIABLES
    upFeature,    \* feature.id of the prop the component is mounted with
    upFiles,      \* the state `files`: the upload list
    upConverting, \* the prop isConverting
    upToasts,     \* the titles of the toasts the last handler raised
    handed        \* the argument of the onConvert call in flight, <<>> when none

\* Index (the page that owns the conversion state and mounts the uploader)
VARIABLES
    selectedFeature, \* state selectedFeature: the id of the feature, "" for null
    progressState,   \* state progress, set by setProgress
    intervals,       \* the number of progressInterval timers that are active
    resetPending,    \* the 1000 ms timer of the success path is pending
    inFlight         \* convertByFeature calls of handleConvert that have not settled

\* onSortEnd taken alone
VARIABLES
    sortIn,          \* a list and the two indices
    sortOut,         \* the list after the two splices
    sortDone

vars ==
    <<pc, featureId, files, strategy, invoked, i, isFirstPage, doc, pageCount, progress,
      events, blob, layIn, layOut, layDone, upFeature, upFiles, upConverting, upToasts,
      handed, selectedFeature, progressState, intervals, resetPending, inFlight, sortIn,
      sortOut, sortDone>>

idxVars == <<selectedFeature, progressState, intervals, resetPending, inFlight>>

\* the state of Index that the converter's onProgress callback does not touch
idxFrame == <<selectedFeature, intervals, resetPending, inFlight>>

sortVars == <<sortIn, sortOut, sortDone>>

upVars == <<upFeature, upFiles, upConverting, upToasts, handed>>

layVars == <<layIn, layOut, layDone>>

callVars ==
    <<pc, featureId, files, strategy, invoked, i, isFirstPage, doc, pageCount, progress,
      events, blob>>

NoLayout == [finalWidth |-> NaN, finalHeight |-> NaN, x |-> NaN, y |-> NaN]

InitCall ==
    /\ pc = "idle"
    /\ featureId = ""
    /\ files = <<>>
    /\ strategy = "none"
    /\ invoked = <<>>
    /\ i = 0
    /\ isFirstPage = TRUE
    /\ doc = <<>>
    /\ pageCount = 0
    /\ progress = <<>>
    /\ events = <<>>
    /\ blob = NoBlob

\* useState<UploadedFile[]>([]) (part_000 line 371), before any conversion
InitUpload ==
    /\ upFiles = <<>>
    /\ upConverting = FALSE
    /\ upToasts = {}
    /\ handed = <<>>

\* useState(0), useState(false) of Index (part_002 lines 21-23); no timer, no call
InitIndex ==
    /\ progressState = Num(0)
    /\ intervals = 0
    /\ resetPending = FALSE
    /\ inFlight = 0

InitSortIdle ==
    /\ sortIn = [list |-> <<1>>, oldIndex |-> 0, newIndex |-> 0]
    /\ sortOut = <<>>
    /\ sortDone = FALSE

Init ==
    /\ InitCall
    /\ upFeature = "images-to-pdf"
    /\ selectedFeature = "images-to-pdf"
    /\ InitIndex
    /\ InitSortIdle
    /\ InitUpload
    /\ layIn = [w |-> 1, h |-> 1]
    /\ layOut = NoLayout
    /\ layDone = FALSE

(***************************************************************************)
(* The loop header of the four iterating strategies, entered with index k, *)
(* document d and flag first: either report progress and start the await   *)
(* of item k, or leave the loop, report 100 and return.                    *)
(***************************************************************************)
LoopHeader(s, n, d, first, k, prog, evs) ==
    /\ doc' = d
    /\ isFirstPage' = first
    /\ i' = k
    /\ IF k < n
       THEN /\ progress' = Append(prog, ProgressValues[n][k])
            /\ progressState' = ProgressValues[n][k]
            /\ events' = Append(evs, [ev |-> "start", item |-> k])
            /\ pc' = "await"
            /\ blob' = NoBlob
       ELSE /\ progress' = Append(prog, ProgressDone)
            /\ progressState' = ProgressDone
            /\ events' = evs
            /\ IF s \in JsPdfStrategies
               THEN pc' = "resolved" /\ blob' = Output(d)
               ELSE pc' = "save" /\ blob' = NoBlob

\* the loop header of splitPDF (lines 200-203, 218-222)
SplitHeader(n, d, k, prog) ==
    /\ doc' = d
    /\ i' = k
    /\ blob' = NoBlob
    /\ IF k < n
       THEN /\ progress' = Append(prog, ProgressValues[n][k])
            /\ progressState' = ProgressValues[n][k]
            /\ pc' = "copy"
       ELSE /\ progress' = Append(prog, ProgressDone)
            /\ progressState' = ProgressDone
            /\ pc' = "save"

\* convertByFeature(id, batch, onProgress), up to the first await of the arm it takes;
\* onProgress is the callback of Index, (progress) => setProgress(progress), and shown
\* the value of the state progress when the call is made
ConvertByFeature(id, batch, shown) ==
    /\ featureId' = id
    /\ files' = batch
    /\ strategy' = Route(id)
    /\ invoked' = IF Route(id) = "placeholder" THEN <<>> ELSE <<Route(id)>>
    /\ pageCount' = 0
    /\ CASE Route(id) \in JsPdfStrategies ->
              LoopHeader(Route(id), Len(batch), NewJsPDF, TRUE, 0, <<>>, <<>>)
         [] Route(id) = "mergePDFs" ->
              \* const mergedPdf = await PDFDocument.create() (line 155)
              /\ doc' = <<>>
              /\ isFirstPage' = TRUE
              /\ i' = 0
              /\ progress' = <<>>
              /\ progressState' = shown
              /\ events' = <<>>
              /\ blob' = NoBlob
              /\ pc' = "create"
         [] Route(id) = "splitPDF" ->
              /\ doc' = <<>>
              /\ isFirstPage' = TRUE
              /\ i' = 0
              /\ progress' = <<>>
              /\ progressState' = shown
              /\ events' = <<>>
              /\ blob' = NoBlob
              /\ pc' = IF Len(batch) = 0 /\ RejectsEmptyBatch(Route(id))
                       THEN "rejected" ELSE "load"
         [] OTHER ->
              /\ doc' = PlaceholderDoc
              /\ isFirstPage' = TRUE
              /\ i' = 0
              /\ progress' = <<ProgressDone>>
              /\ progressState' = ProgressDone
              /\ events' = <<>>
              /\ blob' = Output(PlaceholderDoc)
              /\ pc' = "resolved"

\* a call of convertByFeature when no other call is running
Call(id, batch) ==
    /\ pc = "idle"
    /\ ConvertByFeature(id, batch, progressState)
    /\ UNCHANGED <<upVars, layVars, idxFrame, sortVars>>

\* the awaited promise of item i settles: the rest of the try body, or the catch
ItemSettled ==
    /\ pc = "await"
    /\ strategy \in LoopStrategies
    /\ UNCHANGED <<upVars, idxFrame, sortVars>>
    /\ UNCHANGED <<featureId, files, strategy, invoked, pageCount, layIn, layOut, layDone>>
    /\ \E r \in {ItemResult(strategy, doc, isFirstPage, i, files[i + 1])} :
           IF ~r.ok /\ ItemFailureRejects(strategy)
           THEN /\ pc' = "rejected"
                /\ events' = Append(events, [ev |-> "fail", item |-> i])
                /\ UNCHANGED <<i, isFirstPage, doc, progress, progressState, blob>>
           ELSE LoopHeader(strategy, Len(files), r.doc, r.isFirstPage, i + 1, progress,
                           Append(events, [ev |-> IF r.ok THEN "done" ELSE "fail",
                                           item |-> i]))

\* mergePDFs: PDFDocument.create() settles (line 155) and the loop starts (157-163)
MergeCreated ==
    /\ pc = "create"
    /\ strategy = "mergePDFs"
    /\ UNCHANGED <<upVars, idxFrame, sortVars>>
    /\ UNCHANGED <<featureId, files, strategy, invoked, pageCount, layIn, layOut, layDone>>
    /\ LoopHeader(strategy, Len(files), NewPDFDocument, TRUE, 0, progress, events)

\* splitPDF: arrayBuffer() and PDFDocument.load of files[0] settle; the page count is
\* read and PDFDocument.create() is awaited (lines 191-198)
SplitLoaded ==
    /\ UNCHANGED <<upVars, idxFrame, sortVars>>
    /\ pc = "load"
    /\ UNCHANGED <<featureId, files, strategy, invoked, i, isFirstPage, doc, progress,
                   progressState, events, blob, layIn, layOut, layDone>>
    /\ LET pdf == LoadPdf(files[1])
       IN  IF ~pdf.ok
           THEN pc' = "rejected" /\ UNCHANGED pageCount
           ELSE pc' = "create" /\ pageCount' = pdf.pageCount

\* splitPDF: PDFDocument.create() settles (line 198) and the loop starts (200-203)
SplitCreated ==
    /\ pc = "create"
    /\ strategy = "splitPDF"
    /\ UNCHANGED <<upVars, idxFrame, sortVars>>
    /\ UNCHANGED <<featureId, files, strategy, invoked, isFirstPage, pageCount, events, layIn,
                   layOut, layDone>>
    /\ SplitHeader(pageCount, NewPDFDocument, 0, progress)

\* splitPDF: copyPages(pdf, [i]) settles (lines 205-216)
SplitCopied ==
    /\ UNCHANGED <<upVars, idxFrame, sortVars>>
    /\ pc = "copy"
    /\ UNCHANGED <<featureId, files, strategy, invoked, isFirstPage, pageCount, events, layIn,
                   layOut, layDone>>
    /\ SplitHeader(pageCount, SplitPage(doc, i, pageCount), i + 1, progress)

\* mergePDFs / splitPDF: save() settles and the blob is returned
Saved ==
    /\ UNCHANGED <<upVars, idxFrame, sortVars>>
    /\ pc = "save"
    /\ doc' = SavePdfLib(doc)
    /\ blob' = Output(SavePdfLib(doc))
    /\ pc' = "resolved"
    /\ UNCHANGED <<featureId, files, strategy, invoked, i, isFirstPage, pageCount, progress,
                   progressState, events, layIn, layOut, layDone>>

\* the promise has settled and the caller has taken its value: the call's locals are gone
ReleaseCall ==
    /\ pc' = "idle"
    /\ featureId' = ""
    /\ files' = <<>>
    /\ strategy' = "none"
    /\ invoked' = <<>>
    /\ i' = 0
    /\ isFirstPage' = TRUE
    /\ doc' = <<>>
    /\ pageCount' = 0
    /\ progress' = <<>>
    /\ events' = <<>>
    /\ blob' = NoBlob

Return ==
    /\ pc \in {"resolved", "rejected"}
    /\ ReleaseCall
    /\ UNCHANGED <<upVars, layVars, idxVars, sortVars>>

Next ==
    \/ \E id \in FeatureIds : \E batch \in Batches(id) : Call(id, batch)
    \/ MergeCreated
    \/ ItemSettled
    \/ SplitLoaded
    \/ SplitCreated
    \/ SplitCopied
    \/ Saved
    \/ Return

Spec == Init /\ [][Next]_vars

(***************************************************************************)
(* The layout computation on its own, on the page of new jsPDF(): every    *)
(* raster size up to MaxDim (zero included), the sizes of some photographs *)
(* and scans, and rasters whose quotients round badly.                     *)
(***************************************************************************)
SampleRasters ==
    {[w |-> 1920, h |-> 1080], [w |-> 3024, h |-> 4032], [w |-> 2480, h |-> 3508],
     [w |-> 190, h |-> 277], [w |-> 248, h |-> 455], [w |-> 79, h |-> 143],
     [w |-> 274, h |-> 223]}

InitLayout ==
    /\ InitCall
    /\ upFeature = "images-to-pdf"
    /\ selectedFeature = "images-to-pdf"
    /\ InitIndex
    /\ InitSortIdle
    /\ InitUpload
    /\ layIn \in [w : 0..MaxDim, h : 0..MaxDim] \cup SampleRasters
    /\ layOut = NoLayout
    /\ layDone = FALSE

ComputeLayout ==
    /\ UNCHANGED <<upVars, idxVars, sortVars>>
    /\ ~layDone
    /\ layOut' = Layout(layIn.w, layIn.h, PageWidth, PageHeight, ImageMargin)
    /\ layDone' = TRUE
    /\ UNCHANGED <<layIn, callVars>>

NextLayout == ComputeLayout

SpecLayout == InitLayout /\ [][NextLayout]_vars

Last(q) == q[Len(q)]

Range(q) == {q[k] : k \in 1..Len(q)}

(***************************************************************************)
(* FileUploader: the upload list of the mounted feature and the handlers   *)
(* that change it.  A file of the platform is its extension as written in  *)
(* the name and its size in bytes.                                         *)
(***************************************************************************)
MaxUpload == 3

\* conversionFeatures[].id (FeatureSelector.tsx lines 31-106)
UploaderFeatureIds ==
    {"images-to-pdf", "powerpoint-to-pdf", "word-to-pdf", "excel-to-pdf", "text-to-pdf",
     "merge-pdfs", "split-pdf", "pdf-to-images"}

\* conversionFeatures[].inputTypes
InputTypes(id) ==
    CASE id = "images-to-pdf" -> {"JPG", "PNG", "WebP", "HEIC"}
      [] id = "powerpoint-to-pdf" -> {"PPT", "PPTX"}
      [] id = "word-to-pdf" -> {"DOC", "DOCX"}
      [] id = "excel-to-pdf" -> {"XLS", "XLSX"}
      [] id = "text-to-pdf" -> {"TXT", "MD"}
      [] OTHER -> {"PDF"}

\* the lower-case form of one character; the names of the model are written in ASCII
LowerCaseLetter(c) ==
    CASE c = "A" -> "a"
      [] c = "B" -> "b"
      [] c = "C" -> "c"
      [] c = "D" -> "d"
      [] c = "E" -> "e"
      [] c = "F" -> "f"
      [] c = "G" -> "g"
      [] c = "H" -> "h"
      [] c = "I" -> "i"
      [] c = "J" -> "j"
      [] c = "K" -> "k"
      [] c = "L" -> "l"
      [] c = "M" -> "m"
      [] c = "N" -> "n"
      [] c = "O" -> "o"
      [] c = "P" -> "p"
      [] c = "Q" -> "q"
      [] c = "R" -> "r"
      [] c = "S" -> "s"
      [] c = "T" -> "t"
      [] c = "U" -> "u"
      [] c = "V" -> "v"
      [] c = "W" -> "w"
      [] c = "X" -> "x"
      [] c = "Y" -> "y"
      [] c = "Z" -> "z"
      [] OTHER -> c

\* String.prototype.toLowerCase: every character of the string is lowered
RECURSIVE ToLowerCase(_)
ToLowerCase(str) ==
    IF str = "" THEN "" ELSE LowerCaseLetter(Head(str)) \o ToLowerCase(Tail(str))

\* String.prototype.startsWith
StartsWith(str, prefix) ==
    Len(str) >= Len(prefix) /\ SubSeq(str, 1, Len(prefix)) = prefix

\* 50 * 1024 * 1024 (part_000 line 417)
SizeLimit == 50 * 1024 * 1024

\* the files a user can pick or drop.  The extension is the part of File.name after its
\* last dot (the whole name when it has none); File.type is what the platform reports
\* for the file, the empty string when it knows no type for it, so the two are
\* independent inputs: an accepted extension in mixed case, one in lower case, one the
\* feature does not accept; an empty type and an image type; a size at the limit and
\* one byte above it
InputExtensions == {"Jpg", "heic", "gif"}

InputMimeTypes == {"", "image/jpeg"}

InputFiles ==
    [ext : InputExtensions, type : InputMimeTypes, size : {SizeLimit, SizeLimit + 1}]

\* file.type.startsWith("image/") (part_000 line 431)
IsImageType(f) == StartsWith(f.type, "image/")

\* a FileList of one file, or of one or two files
FileLists(multiple) ==
    {<<f>> : f \in InputFiles}
        \cup (IF multiple THEN {<<f, g>> : f \in InputFiles, g \in InputFiles} ELSE {})

\* const acceptedExtensions = feature.inputTypes.map(type => type.toLowerCase())
\* (part_000 line 404), for each feature
AcceptedExtensions ==
    [id \in UploaderFeatureIds |-> {ToLowerCase(type) : type \in InputTypes(id)}]

\* acceptedExtensions.includes(fileExtension) (part_000 lines 407-409)
ExtensionAccepted(id, f) == ToLowerCase(f.ext) \in AcceptedExtensions[id]

TooLargeOffByOne(f) == f.size > SizeLimit + 1

\* file.size > 50 * 1024 * 1024 (line 417)
TooLarge(f) == f.size > SizeLimit

\* the values Math.random().toString(36).substr(2, 9) can give to n new files: any ids
\* not in the list, pairwise distinct
IdPool == 1..MaxUpload

FreshIds(list, n) ==
    {ids \in [1..n -> IdPool \ {list[k].id : k \in 1..Len(list)}] :
        \A a, b \in 1..n : a # b => ids[a] # ids[b]}

\* the UploadedFile pushed for an accepted file (lines 426-441)
UploadedFile(id, feature, f) ==
    [id |-> id, ext |-> f.ext, type |-> ToLowerCase(f.ext), size |-> f.size,
     preview |-> (feature = "images-to-pdf" /\ IsImageType(f))]

\* processFiles(fileList) (lines 402-453); ids are the ids of the files it accepts
ProcessFiles(fileList, ids) ==
    LET accepted == SelectSeq(fileList,
                              LAMBDA f : ExtensionAccepted(upFeature, f) /\ ~TooLarge(f))
        newFiles == [k \in 1..Len(accepted) |-> UploadedFile(ids[k], upFeature, accepted[k])]
        shown == Range(fileList)
    IN  /\ Len(ids) = Len(accepted)
        /\ upFiles' = upFiles \o newFiles
        /\ upToasts' =
              (IF \E f \in shown : ~ExtensionAccepted(upFeature, f)
               THEN {"Unsupported file type"} ELSE {})
              \cup (IF \E f \in shown : ExtensionAccepted(upFeature, f) /\ TooLarge(f)
                    THEN {"File too large"} ELSE {})
              \cup (IF Len(newFiles) > 0 THEN {"Files uploaded"} ELSE {})
        /\ UNCHANGED <<upFeature, upConverting, handed>>

\* the number of files of the list that processFiles accepts
AcceptedCount(fileList) ==
    Len(SelectSeq(fileList, LAMBDA f : ExtensionAccepted(upFeature, f) /\ ~TooLarge(f)))

\* handleFileSelect (lines 461-465) on the input element (lines 559-566): disabled while
\* converting, a single file per selection for split-pdf
HandleFileSelect(fileList) ==
    /\ ~upConverting
    /\ Len(upFiles) + AcceptedCount(fileList) <= MaxUpload
    /\ \E ids \in FreshIds(upFiles, AcceptedCount(fileList)) : ProcessFiles(fileList, ids)
    /\ UNCHANGED <<callVars, layVars, idxVars, sortVars>>

\* handleDrop (lines 455-459) on the upload zone, which takes no pointer events while
\* converting (line 531)
HandleDrop(fileList) ==
    /\ ~upConverting
    /\ Len(upFiles) + AcceptedCount(fileList) <= MaxUpload
    /\ \E ids \in FreshIds(upFiles, AcceptedCount(fileList)) : ProcessFiles(fileList, ids)
    /\ UNCHANGED <<callVars, layVars, idxVars, sortVars>>

\* URL.revokeObjectURL(file.preview) (line 471) as a running convertImagesToPDF sees it:
\* an item of its batch that has this id and a preview, and whose load has not started
\* (conversionUtils.ts line 39, img.src = file.preview), can no longer be loaded (dead),
\* unless the platform still serves the image it has shown in the list
Revoke(batch, id, dead) ==
    [k \in 1..Len(batch) |->
        IF /\ dead
           /\ pc = "await"
           /\ k > i + 1
           /\ k <= Len(handed)
           /\ handed[k].id = id
           /\ handed[k].preview
        THEN BadFile ELSE batch[k]]

\* removeFile(id) (lines 467-475): the remove button of an item of the list
RemoveFile(id) ==
    /\ \E k \in 1..Len(upFiles) : upFiles[k].id = id
    /\ upFiles' = SelectSeq(upFiles, LAMBDA f : f.id # id)
    /\ upToasts' = {}
    /\ \E dead \in BOOLEAN : files' = Revoke(files, id, dead)
    /\ UNCHANGED <<upFeature, upConverting, handed, layVars, idxVars, sortVars>>
    /\ UNCHANGED <<pc, featureId, strategy, invoked, i, isFirstPage, doc, pageCount,
                   progress, events, blob>>

SpliceSwap(list, oldIndex, newIndex) ==
    [list EXCEPT ![oldIndex + 1] = list[newIndex + 1], ![newIndex + 1] = list[oldIndex + 1]]

\* newFiles.splice(oldIndex, 1); newFiles.splice(newIndex, 0, removed) (lines 479-482)
Splice(list, oldIndex, newIndex) ==
    LET removed == list[oldIndex + 1]
        rest == SubSeq(list, 1, oldIndex) \o SubSeq(list, oldIndex + 2, Len(list))
    IN  SubSeq(rest, 1, newIndex) \o <<removed>> \o SubSeq(rest, newIndex + 1, Len(rest))

\* onSortEnd({ oldIndex, newIndex }) (lines 477-484)
OnSortEnd(oldIndex, newIndex) ==
    /\ upFiles' = Splice(upFiles, oldIndex, newIndex)
    /\ upToasts' = {}
    /\ UNCHANGED <<upFeature, upConverting, handed, callVars, layVars, idxVars, sortVars>>

\* clearAll (lines 486-493): the button is shown for a non-empty list and disabled while
\* converting
ClearAll ==
    /\ ~upConverting
    /\ Len(upFiles) > 0
    /\ upFiles' = <<>>
    /\ upToasts' = {}
    /\ UNCHANGED <<upFeature, upConverting, handed, callVars, layVars, idxVars, sortVars>>

HandleConvertUnchecked ==
    /\ ~upConverting
    /\ upToasts' = {}
    /\ handed' = upFiles
    /\ upConverting' = TRUE
    /\ UNCHANGED <<upFeature, upFiles, callVars, layVars, idxVars, sortVars>>

\* handleConvert (lines 495-506); onConvert is Index.handleConvert, which sets
\* isConverting before its first await
HandleConvert ==
    /\ ~upConverting
    /\ IF Len(upFiles) = 0
       THEN /\ upToasts' = {"No files selected"}
            /\ UNCHANGED <<upConverting, handed>>
       ELSE /\ upToasts' = {}
            /\ handed' = upFiles
            /\ upConverting' = TRUE
    /\ UNCHANGED <<upFeature, upFiles, callVars, layVars, idxVars, sortVars>>

\* the conversion is over: Index sets isConverting to false
ConversionEnds ==
    /\ upConverting
    /\ upConverting' = FALSE
    /\ handed' = <<>>
    /\ upToasts' = {}
    /\ UNCHANGED <<upFeature, upFiles, callVars, layVars, idxVars, sortVars>>

\* the component as Index mounts it: with the feature FeatureSelector has passed on
InitUploader ==
    /\ InitCall
    /\ layIn = [w |-> 1, h |-> 1]
    /\ layOut = NoLayout
    /\ layDone = FALSE
    /\ upFeature = "images-to-pdf"
    /\ selectedFeature = upFeature
    /\ InitIndex
    /\ InitSortIdle
    /\ InitUpload

NextUploader ==
    \/ \E fileList \in FileLists(upFeature # "split-pdf") : HandleFileSelect(fileList)
    \/ \E fileList \in FileLists(TRUE) : HandleDrop(fileList)
    \/ \E id \in IdPool : RemoveFile(id)
    \/ \E oldIndex, newIndex \in 0..(Len(upFiles) - 1) : OnSortEnd(oldIndex, newIndex)
    \/ ClearAll
    \/ HandleConvert
    \/ ConversionEnds

SpecUploader == InitUploader /\ [][NextUploader]_vars

(***************************************************************************)
(* onSortEnd on its own: every list of up to MaxUpload items, repeated     *)
(* items included, with every pair of indices inside the list.             *)
(***************************************************************************)
SortLists == UNION {[1..n -> 1..MaxUpload] : n \in 1..MaxUpload}

InitSort ==
    /\ InitCall
    /\ layIn = [w |-> 1, h |-> 1]
    /\ layOut = NoLayout
    /\ layDone = FALSE
    /\ upFeature = "images-to-pdf"
    /\ selectedFeature = "images-to-pdf"
    /\ InitIndex
    /\ InitUpload
    /\ sortIn \in {[list |-> list, oldIndex |-> o, newIndex |-> n] :
                     list \in SortLists, o \in 0..(MaxUpload - 1), n \in 0..(MaxUpload - 1)}
    /\ sortIn.oldIndex < Len(sortIn.list)
    /\ sortIn.newIndex < Len(sortIn.list)
    /\ sortOut = <<>>
    /\ sortDone = FALSE

\* setFiles((prev) => { ... return newFiles }) of onSortEnd (lines 477-484)
ApplySort ==
    /\ ~sortDone
    /\ sortOut' = Splice(sortIn.list, sortIn.oldIndex, sortIn.newIndex)
    /\ sortDone' = TRUE
    /\ UNCHANGED <<sortIn, callVars, layVars, upVars, idxVars>>

NextSort == ApplySort

SpecSort == InitSort /\ [][NextSort]_vars

(***************************************************************************)
(* Index: the page.  It shows FeatureSelector until a feature is selected, *)
(* then FileUploader for that feature; its handleConvert runs the          *)
(* conversion between a 200 ms progress interval and a 1000 ms reset       *)
(* timer.  The continuation of an await runs as a microtask, ahead of any  *)
(* timer or input event.                                                   *)
(***************************************************************************)
\* most files in the list of the mounted uploader
MaxAppFiles == 2

ComingSoonNever(id) == FALSE

\* conversionFeatures[].comingSoon (FeatureSelector.tsx lines 31-106)
ComingSoon(id) == id # "images-to-pdf"

\* Math.min(a, b): NaN as soon as one side is NaN, and -0 is below 0
MathMin(a, b) ==
    IF IsNaN(a) \/ IsNaN(b) THEN NaN
    ELSE IF IsZero(a) /\ IsZero(b) THEN Zero(IF a.s = -1 \/ b.s = -1 THEN -1 ELSE 1)
    ELSE IF Gt(a, b) THEN b ELSE a

\* what the files of the list hold when they are converted, whatever their names: for
\* the image feature a raster, or bytes that do not decode (a corrupt image, or a format
\* the platform's <img> cannot show); for the others what their readers distinguish
FileContents(feature) ==
    IF feature = "images-to-pdf" THEN {ImageFile(2, 1), BadFile} ELSE BatchFiles(feature)

\* the promise of convertByFeature has settled and the continuation of handleConvert
\* has not run yet
Settling == pc \in {"resolved", "rejected"}

\* FeatureSelector.handleFeatureClick(feature) (FeatureSelector.tsx lines 115-119) and
\* Index.handleFeatureSelect (part_002 lines 31-33); FileUploader mounts with no files
HandleFeatureClick(id) ==
    /\ ~Settling
    /\ selectedFeature = ""
    /\ IF ComingSoon(id)
       THEN UNCHANGED <<selectedFeature, upFeature, upFiles, upToasts>>
       ELSE /\ selectedFeature' = id
            /\ upFeature' = id
            /\ upFiles' = <<>>
            /\ upToasts' = {}
    /\ UNCHANGED <<upConverting, handed, progressState, intervals, resetPending, inFlight,
                   callVars, layVars, sortVars>>

\* Index.handleBackToFeatures (lines 35-37): FileUploader unmounts and its list is gone
HandleBackToFeatures ==
    /\ ~Settling
    /\ selectedFeature # ""
    /\ selectedFeature' = ""
    /\ upFeature' = ""
    /\ upFiles' = <<>>
    /\ upToasts' = {}
    /\ UNCHANGED <<upConverting, handed, progressState, intervals, resetPending, inFlight,
                   callVars, layVars, sortVars>>

ConvertDisabledWhenEmpty == Len(upFiles) = 0

\* the Convert button: shown for a non-empty list, disabled={isConverting ||
\* files.length === 0} (part_000 lines 596-600)
ConvertDisabled == upConverting \/ Len(upFiles) = 0

\* the Convert button: FileUploader.handleConvert (part_000 lines 495-506) calls
\* Index.handleConvert (part_002 lines 39-52), which runs convertByFeature up to its
\* first await
ClickConvert(batch) ==
    /\ ~Settling
    /\ selectedFeature # ""
    /\ ~ConvertDisabled
    /\ batch \in [1..Len(upFiles) -> FileContents(selectedFeature)]
    /\ handed' = upFiles
    /\ upToasts' = {}
    /\ upConverting' = TRUE
    /\ intervals' = intervals + 1
    /\ inFlight' = inFlight + 1
    /\ ConvertByFeature(selectedFeature, batch, Num(0))
    /\ UNCHANGED <<selectedFeature, resetPending, upFeature, upFiles, layVars, sortVars>>

\* the step and the cap of the progress interval (line 47)
TickStep == Num(10)

TickCap == Num(90)

\* the callback of setInterval (lines 46-48)
Tick ==
    /\ ~Settling
    /\ intervals > 0
    /\ progressState' = MathMin(Add(progressState, TickStep), TickCap)
    /\ UNCHANGED <<idxFrame, upVars, callVars, layVars, sortVars>>

ConvertResolvedKeepsInterval ==
    /\ pc = "resolved"
    /\ progressState' = ProgressDone
    /\ upToasts' = {"Conversion completed successfully!"}
    /\ resetPending' = TRUE
    /\ inFlight' = inFlight - 1
    /\ ReleaseCall
    /\ UNCHANGED <<intervals, selectedFeature, upFeature, upFiles, upConverting, handed,
                   layVars, sortVars>>

\* handleConvert after the await, on success (lines 54-81): clearInterval, setProgress(100),
\* the download, the toast, and the 1000 ms timer
ConvertResolved ==
    /\ pc = "resolved"
    /\ intervals' = intervals - 1
    /\ progressState' = ProgressDone
    /\ upToasts' = {"Conversion completed successfully!"}
    /\ resetPending' = TRUE
    /\ inFlight' = inFlight - 1
    /\ ReleaseCall
    /\ UNCHANGED <<selectedFeature, upFeature, upFiles, upConverting, handed, layVars,
                   sortVars>>

\* the catch of handleConvert (lines 83-92): the toast, setIsConverting(false) and
\* setProgress(0).  It runs when convertByFeature rejects, which no call the page makes
\* does (convertImagesToPDF catches the failure of every item)
ConvertRejected ==
    /\ pc = "rejected"
    /\ upConverting' = FALSE
    /\ progressState' = Num(0)
    /\ upToasts' = {"Conversion failed"}
    /\ handed' = <<>>
    /\ inFlight' = inFlight - 1
    /\ ReleaseCall
    /\ UNCHANGED <<intervals, resetPending, selectedFeature, upFeature, upFiles, layVars,
                   sortVars>>

ResetTimerKeepsConverting ==
    /\ ~Settling
    /\ resetPending
    /\ resetPending' = FALSE
    /\ progressState' = Num(0)
    /\ UNCHANGED <<upConverting, handed, selectedFeature, intervals, inFlight, upFeature,
                   upFiles, upToasts, callVars, layVars, sortVars>>

\* the callback of setTimeout (lines 78-81)
ResetTimerFires ==
    /\ ~Settling
    /\ resetPending
    /\ resetPending' = FALSE
    /\ progressState' = Num(0)
    /\ upConverting' = FALSE
    /\ handed' = <<>>
    /\ UNCHANGED <<selectedFeature, intervals, inFlight, upFeature, upFiles, upToasts,
                   callVars, layVars, sortVars>>

\* the files picked or dropped on the page, one at a time
PageFileLists == {<<f>> : f \in InputFiles}

\* the handlers of the mounted FileUploader, on a list of at most MaxAppFiles files
UploaderStep ==
    /\ ~Settling
    /\ selectedFeature # ""
    /\ \/ \E fileList \in PageFileLists :
              /\ Len(upFiles) + AcceptedCount(fileList) <= MaxAppFiles
              /\ HandleFileSelect(fileList)
       \/ \E fileList \in PageFileLists :
              /\ Len(upFiles) + AcceptedCount(fileList) <= MaxAppFiles
              /\ HandleDrop(fileList)
       \/ \E id \in IdPool : RemoveFile(id)
       \/ \E oldIndex, newIndex \in 0..(Len(upFiles) - 1) : OnSortEnd(oldIndex, newIndex)
       \/ ClearAll

\* Index as the page is first rendered
InitPage ==
    /\ InitCall
    /\ layIn = [w |-> 1, h |-> 1]
    /\ layOut = NoLayout
    /\ layDone = FALSE
    /\ InitSortIdle
    /\ InitIndex
    /\ selectedFeature = ""
    /\ upFeature = ""
    /\ InitUpload

\* the page as shipped: features are selected through FeatureSelector, and only
\* convertImagesToPDF runs
NextApp ==
    \/ \E id \in UploaderFeatureIds : HandleFeatureClick(id)
    \/ HandleBackToFeatures
    \/ UploaderStep
    \/ \E batch \in [1..Len(upFiles) -> FileContents(selectedFeature)] : ClickConvert(batch)
    \/ Tick
    \/ ItemSettled
    \/ ConvertResolved
    \/ ResetTimerFires

SpecApp == InitPage /\ [][NextApp]_vars

\* an item of a loop strategy is awaited: ItemSettled is enabled exactly then
ItemPending == pc = "await" /\ strategy \in LoopStrategies

\* WF_vars(ItemSettled), with ENABLED <<ItemSettled>>_vars written as ItemPending: an
\* awaited load, read or parse settles
FairItemSettled == []<>~ItemPending \/ []<><<ItemSettled>>_vars

\* the event loop runs every settled promise, continuation and due timer
FairApp ==
    /\ FairItemSettled
    /\ WF_vars(ConvertResolved)
    /\ WF_vars(ResetTimerFires)

FairSpecApp == SpecApp /\ FairApp

(***************************************************************************)
(* Properties.                                                             *)
(***************************************************************************)
\* the 1-based positions of the batch whose image decodes
DecodedItems == {j \in 1..Len(files) : LoadImage(files[j]).ok}

\* the items (0-based) that have a drawing command on the page
PageItems(page) == {c.item : c \in Range(page)}

\* C1: in every call, the values passed to onProgress are non-decreasing and lie in
\* [0, 100]; 100 is passed at most once and nothing is passed after it; a call that
\* returned a blob has passed 100 last.
C1_ProgressContract ==
    /\ \A k \in 1..Len(progress) :
          /\ Leq(Num(0), progress[k])
          /\ Leq(progress[k], Num(100))
          /\ k < Len(progress) =>
                /\ Leq(progress[k], progress[k + 1])
                /\ progress[k] # Num(100)
    /\ pc = "resolved" => Len(progress) >= 1 /\ Last(progress) = Num(100)

C1_Witness ==
    /\ pc = "resolved"
    /\ strategy = "convertImagesToPDF"
    /\ files = <<ImageFile(2, 1), BadFile, ImageFile(2, 1)>>
    /\ progress = <<Num(0), Num(30), Num(60), Num(100)>>

\* C2: convertImagesToPDF never rejects; on a batch with at least one image that
\* decodes, the returned document has exactly as many pages as images decoded, 100 was
\* reported, and every decoded raster of positive size is drawn on exactly one page,
\* none for an item that failed to decode.
C2_PagesEqualDecodedImages ==
    strategy = "convertImagesToPDF" =>
        /\ pc # "rejected"
        /\ (pc = "resolved" /\ DecodedItems # {}) =>
              /\ Len(blob.pages) = Cardinality(DecodedItems)
              /\ Last(progress) = Num(100)
              /\ \A j \in 1..Len(files) :
                    LET holding == {p \in 1..Len(blob.pages) :
                                      \E c \in Range(blob.pages[p]) :
                                          c.op = "image" /\ c.item = j - 1}
                    IN  Cardinality(holding) =
                           IF j \in DecodedItems /\ files[j].w > 0 /\ files[j].h > 0
                           THEN 1 ELSE 0

C2_Witness ==
    /\ pc = "resolved"
    /\ strategy = "convertImagesToPDF"
    /\ files = <<ImageFile(2, 1), BadFile, ImageFile(2, 1), ImageFile(2, 1)>>
    /\ Len(blob.pages) = 3

\* C3, as claimed: no strategy call is rejected because an input file failed to decode
\* or parse (a rejection only ever comes from an empty batch).
C3_NoStrategyRejectsOnBadFile ==
    (strategy \in Strategies /\ pc = "rejected") => files = <<>>

\* C3, amended: convertImagesToPDF, convertTextToPDF, mergePDFs and convertWordToPDF are
\* never rejected, whatever files fail: they run through the whole batch and resolve
\* with a PDF blob; splitPDF is rejected exactly when the batch is empty or its first
\* file fails to parse.
C3_LoopStrategiesNeverReject ==
    /\ strategy \in LoopStrategies =>
          /\ pc # "rejected"
          /\ pc = "resolved" =>
                /\ i = Len(files)
                /\ blob.type = "application/pdf"
                /\ \A j \in 1..Len(files) :
                      \E k \in 1..Len(events) :
                          events[k].item = j - 1 /\ events[k].ev \in {"done", "fail"}
    /\ (strategy = "splitPDF" /\ pc = "rejected") =>
          (files = <<>> \/ ~LoadPdf(files[1]).ok)
    /\ (strategy = "splitPDF" /\ pc \in {"copy", "save", "resolved"}) =>
          (files # <<>> /\ LoadPdf(files[1]).ok)

C3_Witness ==
    /\ pc = "resolved"
    /\ strategy = "mergePDFs"
    /\ files = <<BadFile, PdfFile(1)>>
    /\ Len(blob.pages) = 1

\* C4, as claimed: a strategy called with a zero-item batch is rejected, and no output
\* document or page exists when it is.
C4_EmptyBatchRejected ==
    (strategy \in Strategies /\ files = <<>> /\ pc # "idle") =>
        (pc = "rejected" /\ doc = <<>> /\ blob = NoBlob)

\* the pages mergePDFs is claimed to produce for batch positions j..Len(fs)
RECURSIVE C5_Concatenation(_, _)
C5_Concatenation(fs, j) ==
    IF j > Len(fs) THEN <<>>
    ELSE (IF fs[j].kind = "pdf"
          THEN [k \in 1..fs[j].pages |-> <<[op |-> "copy", item |-> j - 1, page |-> k]>>]
          ELSE <<>>) \o C5_Concatenation(fs, j + 1)

RECURSIVE C5_PageSum(_, _)
C5_PageSum(fs, j) ==
    IF j > Len(fs) THEN 0
    ELSE (IF fs[j].kind = "pdf" THEN fs[j].pages ELSE 0) + C5_PageSum(fs, j + 1)

\* C5, as claimed: the document mergePDFs returns is the concatenation, in batch order,
\* of the parseable items' pages, and its page count is the sum of their page counts.
C5_MergeIsConcatenation ==
    (strategy = "mergePDFs" /\ pc = "resolved") =>
        /\ blob.pages = C5_Concatenation(files, 1)
        /\ Len(blob.pages) = C5_PageSum(files, 1)

\* C5, amended: the same whenever the parseable items have at least one page between
\* them; when they have none (every item unparseable or without pages, or an empty
\* batch) the returned document holds the single blank page save() adds.
C5_MergeIsConcatenationOrBlank ==
    (strategy = "mergePDFs" /\ pc = "resolved") =>
        IF C5_PageSum(files, 1) > 0
        THEN /\ blob.pages = C5_Concatenation(files, 1)
             /\ Len(blob.pages) = C5_PageSum(files, 1)
        ELSE blob.pages = <<BlankPage>>

C5_Witness ==
    /\ pc = "resolved"
    /\ strategy = "mergePDFs"
    /\ files = <<PdfFile(1), BadFile, PdfFile(2)>>
    /\ Len(blob.pages) = 3

\* the page splitPDF is claimed to produce at position k of total
C6_Page(k, total) ==
    <<[op |-> "copy", item |-> 0, page |-> k], [op |-> "label", index |-> k, total |-> total]>>

\* C6, as claimed: the document splitPDF returns for an N-page source has exactly N
\* pages, page k being source page k labelled k of N, the labels pairwise distinct.
C6_SplitLabelsEveryPage ==
    (strategy = "splitPDF" /\ pc = "resolved") =>
        /\ Len(blob.pages) = pageCount
        /\ pageCount = files[1].pages
        /\ \A k \in 1..Len(blob.pages) : blob.pages[k] = C6_Page(k, pageCount)
        /\ \A k, m \in 1..Len(blob.pages) : k # m => Last(blob.pages[k]) # Last(blob.pages[m])

\* C6, amended: the same for every source with N >= 1 pages; for a source without
\* pages the returned document holds one blank page without a label.
C6_SplitLabelsEveryPageOrBlank ==
    (strategy = "splitPDF" /\ pc = "resolved") =>
        /\ pageCount = files[1].pages
        /\ IF pageCount >= 1
           THEN /\ Len(blob.pages) = pageCount
                /\ \A k \in 1..pageCount : blob.pages[k] = C6_Page(k, pageCount)
                /\ \A k, m \in 1..pageCount :
                      k # m => Last(blob.pages[k]) # Last(blob.pages[m])
           ELSE blob.pages = <<BlankPage>>

C6_Witness ==
    /\ pc = "resolved"
    /\ strategy = "splitPDF"
    /\ pageCount = 2
    /\ blob.pages = <<C6_Page(1, 2), C6_Page(2, 2)>>

\* C7: a call with a featureId that is not implemented is never rejected: it has
\* resolved when it returns, with a PDF blob of one page that holds the three
\* informational lines, and onProgress was called exactly once, with 100.
C7_PlaceholderNeverThrows ==
    (pc # "idle" /\ featureId \notin ImplementedIds) =>
        /\ pc = "resolved"
        /\ blob.type = "application/pdf"
        /\ Len(blob.pages) = 1
        /\ Len(blob.pages[1]) = 3
        /\ \A c \in Range(blob.pages[1]) : c.op = "text" /\ c.what = "info"
        /\ progress = <<Num(100)>>
        /\ invoked = <<>>

C7_Witness ==
    /\ pc = "resolved"
    /\ featureId = "no-such-feature"
    /\ files = <<>>
    /\ Len(blob.pages) = 1

C8_Table ==
    {<<"images-to-pdf", "convertImagesToPDF">>, <<"text-to-pdf", "convertTextToPDF">>,
     <<"merge-pdfs", "mergePDFs">>, <<"split-pdf", "splitPDF">>,
     <<"word-to-pdf", "convertWordToPDF">>}

\* C8: during every call the arm taken is the one the table gives for featureId, that
\* strategy and no other has been invoked, once; every other featureId is in the
\* placeholder arm and no strategy has been invoked; the blob returned is the document
\* of the arm taken.
C8_RoutingTable ==
    pc # "idle" =>
        /\ \/ \E r \in C8_Table :
                 featureId = r[1] /\ strategy = r[2] /\ invoked = <<r[2]>>
           \/ /\ featureId \notin {r[1] : r \in C8_Table}
              /\ strategy = "placeholder"
              /\ invoked = <<>>
        /\ pc = "resolved" => blob = Output(doc)

C8_Witness ==
    /\ pc = "resolved"
    /\ featureId = "word-to-pdf"
    /\ strategy = "convertWordToPDF"
    /\ files = <<DocxFile(5200)>>
    /\ Len(blob.pages) = 2

\* C9: in the jsPDF strategies the per-item trace is start 0, end 0, start 1, end 1, ...
\* (an item starts only after its predecessor has completed or failed), every page
\* holds drawings of one item only, and the pages of item a all precede the pages of
\* item b whenever a < b.
C9_SerialInBatchOrder ==
    strategy \in JsPdfStrategies =>
        /\ \A k \in 1..Len(events) :
              /\ events[k].item = (k - 1) \div 2
              /\ events[k].ev \in (IF k % 2 = 1 THEN {"start"} ELSE {"done", "fail"})
        /\ \A p \in 1..Len(doc) : Cardinality(PageItems(doc[p])) <= 1
        /\ \A p, q \in 1..Len(doc) :
              \A a \in PageItems(doc[p]) : \A b \in PageItems(doc[q]) : a < b => p < q

C9_Witness ==
    /\ pc = "resolved"
    /\ strategy = "convertTextToPDF"
    /\ files = <<TextFile(4500), BadFile, TextFile(4500)>>
    /\ Len(blob.pages) = 4
    /\ PageItems(blob.pages[2]) = {0}
    /\ PageItems(blob.pages[3]) = {2}

\* Number.EPSILON: 2^-52, the gap between 1 and the next number
Epsilon == Div(Num(1), Mul(Num(67108864), Num(67108864)))

\* Math.abs
MathAbs(a) == IF IsNaN(a) THEN a ELSE [a EXCEPT !.s = 1]

\* a is b within floating-point tolerance: |a - b| <= 4 * Number.EPSILON * |b|
Near(a, b) == Leq(MathAbs(Sub(a, b)), Mul(Mul(Num(4), Epsilon), MathAbs(b)))

\* pageWidth - 2 * margin and pageHeight - 2 * margin of convertImagesToPDF
DrawableWidth == Sub(PageWidth, Num(2 * ImageMargin))

DrawableHeight == Sub(PageHeight, Num(2 * ImageMargin))

\* C10: for a raster of positive width and height the placement fits the drawable area
\* (finalWidth <= pageWidth - 2*margin, finalHeight <= pageHeight - 2*margin),
\* x = (pageWidth - finalWidth)/2, y = (pageHeight - finalHeight)/2, and the four values
\* are non-negative.
C10_PlacementFits ==
    (layDone /\ layIn.w > 0 /\ layIn.h > 0) =>
        /\ Leq(layOut.finalWidth, DrawableWidth)
        /\ Leq(layOut.finalHeight, DrawableHeight)
        /\ layOut.x = Div(Sub(PageWidth, layOut.finalWidth), Num(2))
        /\ layOut.y = Div(Sub(PageHeight, layOut.finalHeight), Num(2))
        /\ Leq(Num(0), layOut.finalWidth)
        /\ Leq(Num(0), layOut.finalHeight)
        /\ Leq(Num(0), layOut.x)
        /\ Leq(Num(0), layOut.y)

\* a landscape photograph of 1920 x 1080: the width is clamped, the height is
\* 106.87587499999998 and the picture is centred at x = 10, y = 95.06210416666666
C10_Witness ==
    /\ layDone
    /\ layIn = [w |-> 1920, h |-> 1080]
    /\ layOut.finalWidth = DrawableWidth
    /\ Gt(layOut.finalHeight, Num(106))
    /\ Gt(Num(107), layOut.finalHeight)
    /\ layOut.x = Num(10)
    /\ Gt(layOut.y, Num(95))
    /\ Gt(Num(96), layOut.y)

\* C11, as claimed: for a raster of positive width and height the placement keeps the
\* aspect ratio exactly: finalWidth * height = finalHeight * width, and
\* finalWidth / finalHeight equals width / height, in the width-clamped and in the
\* height-clamped branch.
C11_AspectRatioExact ==
    (layDone /\ layIn.w > 0 /\ layIn.h > 0) =>
        /\ IsFinite(layOut.finalWidth)
        /\ IsFinite(layOut.finalHeight)
        /\ Eq(Mul(layOut.finalWidth, Num(layIn.h)), Mul(layOut.finalHeight, Num(layIn.w)))
        /\ Eq(Div(layOut.finalWidth, layOut.finalHeight), Div(Num(layIn.w), Num(layIn.h)))

\* C11, amended: for a raster of positive width and height the placement keeps the
\* aspect ratio up to rounding: finalWidth / finalHeight is width / height with a
\* relative error of at most 4 * Number.EPSILON, and finalWidth * height is
\* finalHeight * width with the same relative error, in both branches.
C11_AspectRatioPreserved ==
    (layDone /\ layIn.w > 0 /\ layIn.h > 0) =>
        /\ IsFinite(layOut.finalWidth)
        /\ IsFinite(layOut.finalHeight)
        /\ Near(Div(layOut.finalWidth, layOut.finalHeight), Div(Num(layIn.w), Num(layIn.h)))
        /\ Near(Mul(layOut.finalWidth, Num(layIn.h)), Mul(layOut.finalHeight, Num(layIn.w)))

\* a raster of 1 x 3, the height-clamped branch: finalWidth = 277.0000833333333 * (1/3)
\* = 92.33336111111109, and finalWidth * 3 = 277.00008333333324 is not finalHeight * 1
C11_Witness ==
    /\ layDone
    /\ layIn = [w |-> 1, h |-> 3]
    /\ layOut.finalHeight = DrawableHeight
    /\ Gt(layOut.finalWidth, Num(92))
    /\ Gt(Num(93), layOut.finalWidth)
    /\ Gt(layOut.finalHeight, Mul(layOut.finalWidth, Num(3)))

IsBodyLine(pg, q) == pg[q].op = "text" /\ pg[q].what = "line"

\* C12: in convertTextToPDF and convertWordToPDF every body line is drawn at a y with
\* y + lineHeight <= pageHeight - margin; the line after it is drawn lineHeight lower on
\* the same page, or, exactly when it would not fit there, first on the next page at
\* y = margin; the body starts at margin + 25 under the separator; lines keep their order.
C12_PaginationFitsPage ==
    strategy \in {"convertTextToPDF", "convertWordToPDF"} =>
        \A p \in 1..Len(doc) : \A q \in 1..Len(doc[p]) :
            IsBodyLine(doc[p], q) =>
                LET c == doc[p][q]
                IN  /\ Leq(Num(c.y + LineHeight), TextBottom)
                    /\ c.y >= TextMargin
                    /\ q < Len(doc[p]) =>
                          /\ IsBodyLine(doc[p], q + 1)
                          /\ doc[p][q + 1].item = c.item
                          /\ doc[p][q + 1].k = c.k + 1
                          /\ doc[p][q + 1].y = c.y + LineHeight
                    /\ q = 1 =>
                          /\ c.y = TextMargin
                          /\ p > 1
                          /\ LET last == Len(doc[p - 1])
                             IN  /\ last >= 1
                                 /\ IsBodyLine(doc[p - 1], last)
                                 /\ doc[p - 1][last].item = c.item
                                 /\ doc[p - 1][last].k = c.k - 1
                                 /\ Gt(Num(doc[p - 1][last].y + LineHeight + LineHeight),
                                       TextBottom)
                    /\ (q > 1 /\ ~IsBodyLine(doc[p], q - 1)) =>
                          /\ doc[p][q - 1].op = "line"
                          /\ c.k = 1
                          /\ c.y = TextMargin + 25

\* a text of 45 lines: 38 on the first page, line 39 first on the second at y = margin
C12_Witness ==
    /\ pc = "resolved"
    /\ strategy = "convertTextToPDF"
    /\ files = <<TextFile(4500)>>
    /\ Len(blob.pages) = 2
    /\ Last(blob.pages[1]).k = 38
    /\ blob.pages[2][1].k = 39
    /\ blob.pages[2][1].y = TextMargin
    /\ Last(blob.pages[2]).k = 45

\* the pages (1-based) of document d that carry a drawing of item j (0-based)
PagesOfItem(d, j) == {p \in 1..Len(d) : j \in PageItems(d[p])}

\* the body lines of item j on the page
BodyLinesOn(page, j) ==
    {q \in 1..Len(page) : IsBodyLine(page, q) /\ page[q].item = j}

\* C13: in a document returned by convertTextToPDF every item whose text was read has at
\* least one page, and an item whose text is empty has exactly one page, of its own, with
\* at most one body line.
C13_EmptyTextOnePage ==
    (pc = "resolved" /\ strategy = "convertTextToPDF") =>
        \A j \in 1..Len(files) :
            ReadText(files[j]).ok =>
                LET pgs == PagesOfItem(blob.pages, j - 1)
                IN  /\ pgs # {}
                    /\ ReadText(files[j]).len = 0 =>
                          /\ Cardinality(pgs) = 1
                          /\ \A p \in pgs :
                                /\ PageItems(blob.pages[p]) = {j - 1}
                                /\ Cardinality(BodyLinesOn(blob.pages[p], j - 1)) <= 1

\* an empty text after a two-page text: the empty item alone on page 3
C13_Witness ==
    /\ pc = "resolved"
    /\ strategy = "convertTextToPDF"
    /\ files = <<TextFile(4500), TextFile(0)>>
    /\ Len(blob.pages) = 3
    /\ PagesOfItem(blob.pages, 1) = {3}
    /\ Cardinality(BodyLinesOn(blob.pages[3], 1)) = 1

\* C14: every document returned by a strategy or by the placeholder arm has at least
\* one page.
C14_ReturnedDocumentHasPage ==
    pc = "resolved" => /\ blob.type = "application/pdf"
                       /\ Len(blob.pages) >= 1

\* mergePDFs with no item that parses: the saved document is one blank page
C14_Witness ==
    /\ pc = "resolved"
    /\ strategy = "mergePDFs"
    /\ Len(files) = 2
    /\ \A j \in 1..Len(files) : ~LoadPdf(files[j]).ok
    /\ blob.pages = <<BlankPage>>

\* the 1-based positions of the batch whose image decodes to a raster of positive size
DrawableItems == {j \in DecodedItems : files[j].w > 0 /\ files[j].h > 0}

\* C16: convertImagesToPDF skips an item whose raster reports a zero width or height:
\* the call resolves, the item leaves no page and no drawing, and the document is the one
\* the other items alone would give, a page per raster of positive size.
C16_ZeroSizeRasterLeavesNothing ==
    strategy = "convertImagesToPDF" =>
        /\ pc # "rejected"
        /\ pc = "resolved" =>
              /\ \A j \in DecodedItems \ DrawableItems :
                    PagesOfItem(blob.pages, j - 1) = {}
              /\ Len(blob.pages) =
                    IF DrawableItems = {} THEN 1 ELSE Cardinality(DrawableItems)
              /\ \A p \in 1..Len(blob.pages) :
                    DrawableItems # {} => PageItems(blob.pages[p]) # {}

\* the items (0-based) that have a drawing in document d
DrawnItems(d) == {j \in 0..(Len(files) - 1) : PagesOfItem(d, j) # {}}

Min(S) == CHOOSE x \in S : \A y \in S : x <= y

Max(S) == CHOOSE x \in S : \A y \in S : x >= y

\* C17: in a document returned by convertImagesToPDF, convertTextToPDF or
\* convertWordToPDF the first item processed successfully is drawn on page 1, and every
\* later one starts on the page that follows the last page of the one before it: no
\* blank page leads the document or separates two items.
C17_NoSpuriousBlankPage ==
    (pc = "resolved" /\ strategy \in JsPdfStrategies) =>
        LET drawn == DrawnItems(blob.pages)
        IN  \A j \in drawn :
                LET start == Min(PagesOfItem(blob.pages, j))
                    before == {h \in drawn : h < j}
                IN  IF before = {} THEN start = 1
                    ELSE start = Max(PagesOfItem(blob.pages, Max(before))) + 1

\* ((k - 1) / n) * 90 for the k-th unit of n, for every n of the model
ExpectedValues ==
    [n \in 1..MaxItems |-> [k \in 1..n |-> Mul(Div(Num(k - 1), Num(n)), Num(90))]]

\* the values onProgress has received after `calls` loop headers over n units, and the
\* final 100 when `finished`
ExpectedProgress(calls, n, finished) ==
    LET before == [k \in 1..calls |-> ExpectedValues[n][k]]
    IN  IF finished THEN Append(before, Num(100)) ELSE before

\* C18: convertImagesToPDF, convertTextToPDF, mergePDFs and convertWordToPDF call
\* onProgress once before each item i with (i/n)*90, whether or not the item then fails,
\* and once with 100 after the last item, n+1 calls in all; splitPDF does the same per
\* page of its source, with (i/pageCount)*90, and calls nothing before the source loads.
C18_ProgressCalls ==
    /\ strategy \in LoopStrategies =>
          /\ pc = "create" => progress = <<>>
          /\ pc = "await" => progress = ExpectedProgress(i + 1, Len(files), FALSE)
          /\ pc \in {"save", "resolved"} =>
                /\ progress = ExpectedProgress(Len(files), Len(files), TRUE)
                /\ Len(progress) = Len(files) + 1
    /\ strategy = "splitPDF" =>
          /\ pc \in {"load", "create", "rejected"} => progress = <<>>
          /\ pc = "copy" => progress = ExpectedProgress(i + 1, pageCount, FALSE)
          /\ pc \in {"save", "resolved"} =>
                /\ progress = ExpectedProgress(pageCount, pageCount, TRUE)
                /\ Len(progress) = pageCount + 1

\* four Word items, two of them failing: five calls
C18_Witness ==
    /\ pc = "resolved"
    /\ strategy = "convertWordToPDF"
    /\ files = <<BadFile, DocxFile(5200), BadFile, TextFile(250)>>
    /\ progress = <<Num(0), Div(Num(45), Num(2)), Num(45), Div(Num(135), Num(2)), Num(100)>>

\* the number of body lines drawn for item j (0-based) in document d: lines are numbered
\* from 1 in drawing order
BodyLineCount(d, j) ==
    Max({0} \cup UNION {{d[p][q].k : q \in BodyLinesOn(d[p], j)} : p \in 1..Len(d)})

\* the text of an item as read or extracted, before any cap
SourceText(s, f) == IF s = "convertTextToPDF" THEN ReadText(f) ELSE ExtractWordText(f)

\* C19: in a document returned by convertTextToPDF or convertWordToPDF, a text no longer
\* than the cap is paginated unchanged, and a longer text is paginated as its first cap
\* characters followed by a truncation marker: more lines than the cap characters alone
\* fill, and, the marker being shorter than a line, at most one more.
C19_TruncatedWithMarker ==
    (pc = "resolved" /\ strategy \in {"convertTextToPDF", "convertWordToPDF"}) =>
        \A j \in 1..Len(files) :
            LET text == SourceText(strategy, files[j])
                drawn == BodyLineCount(blob.pages, j - 1)
            IN  text.ok =>
                    IF text.len <= WordTextLimit
                    THEN drawn = SplitTextToSize(text.len)
                    ELSE /\ drawn >= SplitTextToSize(WordTextLimit + 1)
                         /\ drawn <= SplitTextToSize(WordTextLimit + CharsPerLine)

\* the lower-case extensions of the feature's inputTypes
LowerInputTypes(id) == {ToLowerCase(type) : type \in InputTypes(id)}

\* C22: every file of FileUploader's list has an extension among the inputTypes of the
\* feature, compared without case, and a size of at most 50 MB; a handler that accepts
\* files appends them to the list it found, and one that accepts none (every file
\* rejected) leaves the list unchanged.
C22_UploadValidation ==
    /\ [](\A k \in 1..Len(upFiles) :
             /\ ToLowerCase(upFiles[k].ext) \in LowerInputTypes(upFeature)
             /\ upFiles[k].size <= 50 * 1024 * 1024)
    /\ [][/\ Len(upFiles') > Len(upFiles) =>
                /\ SubSeq(upFiles', 1, Len(upFiles)) = upFiles
                /\ "Files uploaded" \in upToasts'
          /\ (upToasts' \cap {"Unsupported file type", "File too large"} # {}
                 /\ "Files uploaded" \notin upToasts') => upFiles' = upFiles]_vars

\* a drop of an accepted image at the limit, its extension in mixed case, and one a
\* byte larger on a list of one
C22_Witness ==
    /\ upFeature = "images-to-pdf"
    /\ Len(upFiles) = 2
    /\ upFiles[2].ext = "Jpg"
    /\ upFiles[2].size = SizeLimit
    /\ upToasts = {"File too large", "Files uploaded"}

\* the items (0-based) whose try body ran to its end
ProcessedItems == {e.item : e \in {x \in Range(events) : x.ev = "done"}}

\* the pages of document d that carry a drawing
DrawnPages(d) == {p \in 1..Len(d) : d[p] # BlankPage}

\* C23: in a document returned by convertImagesToPDF, convertTextToPDF or
\* convertWordToPDF an item that failed at any step has no page: every drawing belongs
\* to a fully processed item and no page of the document is blank, unless no item was
\* processed at all, when the document is the single initial page.
C23_FailedItemLeavesNoPage ==
    (pc = "resolved" /\ strategy \in JsPdfStrategies) =>
        /\ DrawnItems(blob.pages) \subseteq ProcessedItems
        /\ Len(blob.pages) =
              IF ProcessedItems = {} THEN 1 ELSE Cardinality(DrawnPages(blob.pages))

\* the list without its element at position k (1-based)
Without(list, k) == SubSeq(list, 1, k - 1) \o SubSeq(list, k + 1, Len(list))

\* the number of positions of the list that hold v
Count(list, v) == Cardinality({k \in 1..Len(list) : list[k] = v})

\* C30: onSortEnd with both indices inside the list permutes it: every item keeps its
\* multiplicity, the moved item ends at newIndex, the other items keep their relative
\* order, and oldIndex = newIndex leaves the list as it was.
C30_SortIsPermutation ==
    sortDone =>
        /\ Len(sortOut) = Len(sortIn.list)
        /\ \A v \in Range(sortIn.list) \cup Range(sortOut) :
              Count(sortOut, v) = Count(sortIn.list, v)
        /\ sortOut[sortIn.newIndex + 1] = sortIn.list[sortIn.oldIndex + 1]
        /\ Without(sortOut, sortIn.newIndex + 1) = Without(sortIn.list, sortIn.oldIndex + 1)
        /\ sortIn.oldIndex = sortIn.newIndex => sortOut = sortIn.list

\* the first of three items dragged to the end
C30_Witness ==
    /\ sortDone
    /\ sortIn = [list |-> <<1, 2, 3>>, oldIndex |-> 0, newIndex |-> 2]
    /\ sortOut = <<2, 3, 1>>

\* C21: a submission of an empty list is rejected before any strategy runs:
\* handleConvert on an empty list shows the validation error "No files selected" and
\* does not call onConvert, so every batch handed to onConvert has at least one file.
C21_EmptySubmissionRejected ==
    /\ [](/\ upConverting => Len(handed) >= 1
          /\ "No files selected" \in upToasts =>
                (Len(upFiles) = 0 /\ ~upConverting /\ handed = <<>>))
    /\ [][/\ handed' # handed /\ handed' # <<>> => (Len(upFiles) >= 1 /\ handed' = upFiles)
          /\ (~upConverting /\ upConverting') => Len(upFiles) >= 1
          /\ "No files selected" \in upToasts' =>
                (Len(upFiles) = 0 /\ handed' = handed /\ upConverting' = upConverting)]_vars

C21_Witness ==
    /\ "No files selected" \in upToasts
    /\ upFiles = <<>>
    /\ ~upConverting
    /\ handed = <<>>

\* C24, as claimed: from the start of a conversion until the displayed progress reaches
\* 100 it never decreases, however the callbacks of the 200 ms interval interleave with
\* the onProgress callbacks of the converter.
C24_DisplayedProgressMonotone ==
    [][(upConverting /\ upConverting' /\ inFlight = 1 /\ progressState # Num(100)) =>
          Leq(progressState, progressState')]_vars

\* C25: in every reachable state of the page, whenever isConverting is false the
\* progress state is 0 and no simulated-progress interval started by handleConvert is
\* still active, however the conversions before it ended.
C25_IdleMeansZeroAndNoTimer ==
    ~upConverting => (progressState = Num(0) /\ intervals = 0)

\* a conversion has ended by success and its reset timer has fired
C25_Witness ==
    /\ ~upConverting
    /\ upToasts = {"Conversion completed successfully!"}
    /\ ~resetPending
    /\ inFlight = 0
    /\ Len(upFiles) = 2
    /\ progressState = Num(0)
    /\ intervals = 0

\* C26: every conversion started by handleConvert eventually leaves the converting
\* state: whenever isConverting is true it later becomes false, by the reset timer
\* after convertByFeature resolved or by the catch after it was rejected.
C26_ConvertingEventuallyEnds ==
    upConverting ~> ~upConverting

\* the call has resolved with a document in which an image failed, the continuation of
\* handleConvert has not run yet and isConverting is still true
C26_Witness ==
    /\ upConverting
    /\ pc = "resolved"
    /\ strategy = "convertImagesToPDF"
    /\ files = <<ImageFile(2, 1), BadFile>>
    /\ inFlight = 1
    /\ intervals = 1

\* C27: at most one conversion is in flight at any time: a call of convertByFeature is
\* pending only while isConverting is true, and no user action (Convert button, file
\* input, drop zone, Back to Features, selecting a feature again) starts a call while
\* isConverting is true.
C27_OneConversionInFlight ==
    /\ [](/\ inFlight <= 1
          /\ inFlight = 1 => upConverting
          /\ pc # "idle" => (inFlight = 1 /\ upConverting))
    /\ [][inFlight' > inFlight => (~upConverting /\ inFlight = 0 /\ pc = "idle")]_vars

\* a conversion is still in flight after Back to Features and a new selection
C27_Witness ==
    /\ inFlight = 1
    /\ upConverting
    /\ pc = "await"
    /\ selectedFeature = "images-to-pdf"
    /\ upFiles = <<>>

\* C28, as claimed: once a conversion has started, removing, reordering or adding items
\* of the upload list does not change its result: the batch handed to onConvert stays as
\* long as the list was, no step taken while the call runs makes an item of the batch
\* that was decodable undecodable, and the document returned has one page per decodable
\* item of the batch, in the order the batch had when the conversion started.
C28_ListActionsLeaveResult ==
    /\ []((strategy = "convertImagesToPDF" /\ inFlight = 1) =>
             /\ Len(files) = Len(handed)
             /\ pc = "resolved" =>
                   \A k \in 1..Len(blob.pages) :
                       \A item \in PageItems(blob.pages[k]) : LoadImage(files[item + 1]).ok)
    /\ [][(strategy = "convertImagesToPDF" /\ inFlight = 1 /\ inFlight' = 1) =>
              \A k \in 1..Len(files) :
                  LoadImage(files[k]).ok => LoadImage(files'[k]).ok]_vars

\* the features of conversionFeatures that carry no comingSoon flag
C29_Available == {"images-to-pdf"}

\* C29: clicking a feature marked comingSoon changes nothing; hence in every state
\* reachable through the page the selected feature, if any, is one without comingSoon,
\* and convertByFeature is only ever called with the id of such a feature.
C29_ComingSoonNeverSelected ==
    /\ [](/\ selectedFeature \in C29_Available \cup {""}
          /\ upFeature = selectedFeature
          /\ pc # "idle" => featureId \in C29_Available)
    /\ [][/\ selectedFeature' # selectedFeature => selectedFeature' \in C29_Available \cup {""}
          /\ featureId' # featureId =>
                (featureId' = ""
                 \/ (featureId' = selectedFeature /\ featureId' \in C29_Available))]_vars

C29_Witness ==
    /\ pc = "await"
    /\ featureId = "images-to-pdf"
    /\ selectedFeature = "images-to-pdf"
    /\ \E id \in UploaderFeatureIds : ComingSoon(id)
====
